---- MODULE Spec2Model ----
(***************************************************************************)
(* Model of src/src/fat32/mod.rs: the FAT32 metadata layer (Fat32::mount,  *)
(* Fat32::cluster_to_lba, Fat32::get_fat_entry) over a Disk.               *)
(*                                                                         *)
(* A Rust u32 is kept at its full width as two 16-bit limbs [hi, lo], so   *)
(* that every value of the model checker's integers stays below 2^31.      *)
(* An arithmetic operator returns the wrapped 32-bit result together with  *)
(* an overflow flag: with overflow checks compiled in (the dev profile)    *)
(* an overflowing +, - or * panics, without them (the release profile) it  *)
(* wraps. Division by zero panics in every profile.                        *)
(***************************************************************************)
EXTENDS Integers, Sequences, FiniteSets

\* ------------------------------------------------------------ u32 values

Limb == 2^16

U32(h, l) == [hi |-> h, lo |-> l]

\* a small natural number (below 2^31) as a u32: the `as u32` casts
AsU32(n) == U32(n \div Limb, n % Limb)

Zero32 == U32(0, 0)
Two32 == U32(0, 2)
Four32 == U32(0, 4)
Max32 == U32(Limb - 1, Limb - 1)

Lt32(a, b) == a.hi < b.hi \/ (a.hi = b.hi /\ a.lo < b.lo)
Ge32(a, b) == ~Lt32(a, b)

\* a + b on u32: the wrapped sum, and whether the true sum exceeds 2^32 - 1
Add32(a, b) ==
    LET l == a.lo + b.lo
        h == a.hi + b.hi + (l \div Limb)
    IN  [val |-> U32(h % Limb, l % Limb), ovf |-> h >= Limb]

\* a - b on u32: the wrapped difference, and whether a < b
Sub32(a, b) ==
    LET l == a.lo - b.lo
        borrow == IF l < 0 THEN 1 ELSE 0
        h == a.hi - b.hi - borrow
    IN  [val |-> U32(h % Limb, l % Limb), ovf |-> h < 0]

\* the four bytes of a u32, least significant first
BytesOf(a) == <<a.lo % 256, a.lo \div 256, a.hi % 256, a.hi \div 256>>

\* a * b on u32 (schoolbook over bytes): the wrapped product, and whether
\* the true product exceeds 2^32 - 1
Mul32(a, b) ==
    LET x == BytesOf(a)
        y == BytesOf(b)
        c0 == x[1] * y[1]
        c1 == x[1] * y[2] + x[2] * y[1] + (c0 \div 256)
        c2 == x[1] * y[3] + x[2] * y[2] + x[3] * y[1] + (c1 \div 256)
        c3 == x[1] * y[4] + x[2] * y[3] + x[3] * y[2] + x[4] * y[1] + (c2 \div 256)
        c4 == x[2] * y[4] + x[3] * y[3] + x[4] * y[2] + (c3 \div 256)
        c5 == x[3] * y[4] + x[4] * y[3] + (c4 \div 256)
        c6 == x[4] * y[4] + (c5 \div 256)
    IN  [val |-> U32((c3 % 256) * 256 + (c2 % 256), (c1 % 256) * 256 + (c0 % 256)),
         ovf |-> (c4 % 256) # 0 \/ (c5 % 256) # 0 \/ c6 # 0]

\* a / d and a % d on u32 for a divisor 0 < d < 2^15 (long division over the
\* limbs). Every divisor of the program is a widened u8 or the value 512.
Div32(a, d) ==
    LET t == (a.hi % d.lo) * Limb + a.lo
    IN  U32(a.hi \div d.lo, t \div d.lo)

Rem32(a, d) ==
    LET t == (a.hi % d.lo) * Limb + a.lo
    IN  U32(0, t % d.lo)

\* a & 0x0FFFFFFF
MaskLow28(a) == U32(a.hi % 4096, a.lo)

\* ------------------------------------------------------------- the disk

SECTOR_SIZE == 512

BOOT_SIGNATURE == 43605    \* 0xAA55

\* A device (an implementation of trait Disk): its capacity, the fields its
\* sector 0 stores, and a seed that selects the content of its other sectors.
\* Whether a read_sector call succeeds is the device's choice at each call: it
\* returns Ok(()) with the buffer filled, or an Err of any variant of Error,
\* which the callers' `?` hands on as it is.
DeviceResults == {"Ok", "IoError", "InvalidFat32Structure", "FileNotFound", "InvalidPath"}

\* the raw 32-bit values the device stores in the 4-byte slots of its sectors:
\* 0xF0000005, 0x0FFFFFFF, 0x00000006, 0xFFFFFFF8, 0x12345678
RawValues ==
    << U32(61440, 5), U32(4095, 65535), U32(0, 6), U32(65535, 65528), U32(4660, 22136) >>

\* byte i (0, 1: least significant first) of a 16-bit field
Le16Byte(v, i) == IF i = 0 THEN v % 256 ELSE v \div 256

\* sector 0 as stored on the medium: every field little-endian at the offset
\* the packed BootSector layout gives it, every other byte zero
BootSectorBytes(b) ==
    [i \in 0..(SECTOR_SIZE - 1) |->
        CASE i \in 11..12 -> Le16Byte(b.bytes_per_sector, i - 11)
          [] i = 13 -> b.sectors_per_cluster
          [] i \in 14..15 -> Le16Byte(b.reserved_sector_count, i - 14)
          [] i = 16 -> b.num_fats
          [] i \in 32..35 -> BytesOf(b.total_sectors_32)[i - 31]
          [] i \in 36..39 -> BytesOf(b.fat_size_32)[i - 35]
          [] i \in 44..47 -> BytesOf(b.root_cluster)[i - 43]
          [] i \in 510..511 -> Le16Byte(b.boot_signature, i - 510)
          [] OTHER -> 0]

\* the raw value in slot k (bytes 4k..4k+3) of sector lba, lba # 0
RawEntry(d, lba, k) ==
    RawValues[((lba.lo + lba.hi + k + d.seed) % Len(RawValues)) + 1]

FatSectorBytes(d, lba) ==
    [i \in 0..(SECTOR_SIZE - 1) |-> BytesOf(RawEntry(d, lba, i \div 4))[(i % 4) + 1]]

\* what a successful read_sector(lba, buffer) leaves in the buffer
ReadSector(d, lba) ==
    IF lba = Zero32 THEN BootSectorBytes(d.boot) ELSE FatSectorBytes(d, lba)

\* ------------------------------------------------- the on-disk layout

\* u16 and u32 fields of a packed struct laid over the buffer, read on a
\* little-endian target
ReadU16(buf, off) == buf[off + 1] * 256 + buf[off]

ReadU32(buf, off) ==
    U32(buf[off + 3] * 256 + buf[off + 2], buf[off + 1] * 256 + buf[off])

\* BootSector: jmp_boot 3 bytes, oem_name 8 bytes, bpb at 11, _padding 420
\* bytes, boot_signature at 510. BiosParameterBlock: the fields in
\* declaration order, no padding.
cast_slice_to_struct(buf) ==
    [bytes_per_sector |-> ReadU16(buf, 11),
     sectors_per_cluster |-> buf[13],
     reserved_sector_count |-> ReadU16(buf, 14),
     num_fats |-> buf[16],
     total_sectors_32 |-> ReadU32(buf, 32),
     fat_size_32 |-> ReadU32(buf, 36),
     root_cluster |-> ReadU32(buf, 44),
     boot_signature |-> ReadU16(buf, 510)]

\* ---------------------------------------------------------------- mount

FsInfo(bps, spc, rsc, nf, fs, rc, ffs, fds, cc) ==
    [bytes_per_sector |-> bps, sectors_per_cluster |-> spc,
     reserved_sector_count |-> rsc, num_fats |-> nf, fat_size |-> fs,
     root_cluster |-> rc, first_fat_sector |-> ffs, first_data_sector |-> fds,
     cluster_count |-> cc]

\* the info field of a state that holds no volume
NoInfo == FsInfo(Zero32, Zero32, Zero32, Zero32, Zero32, Zero32, Zero32, Zero32, Zero32)

\* one read_sector call: the sector asked for, and whether the device served it
ReadOf(lba, ok) == [lba |-> lba, ok |-> ok]

\* what a call did: how it ended ("Ok", an Error variant, or "panic"), the
\* geometry or value it returned, and the read_sector calls it made, in order
Outcome(t, i, r) == [tag |-> t, info |-> i, reads |-> r]

\* MountGeometry with first_data_sector taken past one FAT only
MountGeometry_one_fat(bpb, checks) ==
    LET reserved_sector_count == AsU32(bpb.reserved_sector_count)
        first_data_sector == Add32(reserved_sector_count, bpb.fat_size_32)
        data_sectors == Sub32(bpb.total_sectors_32, first_data_sector.val)
    IN  IF checks /\ (first_data_sector.ovf \/ data_sectors.ovf)
        THEN Outcome("panic", NoInfo, <<ReadOf(Zero32, TRUE)>>)
        ELSE IF bpb.sectors_per_cluster = 0
        THEN Outcome("panic", NoInfo, <<ReadOf(Zero32, TRUE)>>)
        ELSE Outcome("Ok",
                     FsInfo(AsU32(bpb.bytes_per_sector), AsU32(bpb.sectors_per_cluster),
                            reserved_sector_count, AsU32(bpb.num_fats), bpb.fat_size_32,
                            bpb.root_cluster, reserved_sector_count,
                            first_data_sector.val,
                            Div32(data_sectors.val, AsU32(bpb.sectors_per_cluster))),
                     <<ReadOf(Zero32, TRUE)>>)

\* MountGeometry with a division that yields 0 for a zero divisor
MountGeometry_zero_divisor(bpb, checks) ==
    LET reserved_sector_count == AsU32(bpb.reserved_sector_count)
        fat_sectors == Mul32(AsU32(bpb.num_fats), bpb.fat_size_32)
        first_data_sector == Add32(reserved_sector_count, fat_sectors.val)
        data_sectors == Sub32(bpb.total_sectors_32, first_data_sector.val)
    IN  IF checks /\ (fat_sectors.ovf \/ first_data_sector.ovf \/ data_sectors.ovf)
        THEN Outcome("panic", NoInfo, <<ReadOf(Zero32, TRUE)>>)
        ELSE Outcome("Ok",
                     FsInfo(AsU32(bpb.bytes_per_sector), AsU32(bpb.sectors_per_cluster),
                            reserved_sector_count, AsU32(bpb.num_fats), bpb.fat_size_32,
                            bpb.root_cluster, reserved_sector_count,
                            first_data_sector.val,
                            IF bpb.sectors_per_cluster = 0
                            THEN Zero32
                            ELSE Div32(data_sectors.val, AsU32(bpb.sectors_per_cluster))),
                     <<ReadOf(Zero32, TRUE)>>)

\* lines 55-86: the geometry of a boot sector that passed both checks.
\* checks: overflow checks are compiled in.
MountGeometry(bpb, checks) ==
    LET bytes_per_sector == AsU32(bpb.bytes_per_sector)
        reserved_sector_count == AsU32(bpb.reserved_sector_count)
        num_fats == AsU32(bpb.num_fats)
        fat_size == bpb.fat_size_32
        first_fat_sector == reserved_sector_count
        fat_sectors == Mul32(num_fats, fat_size)
        first_data_sector == Add32(reserved_sector_count, fat_sectors.val)
        data_sectors == Sub32(bpb.total_sectors_32, first_data_sector.val)
    IN  IF checks /\ (fat_sectors.ovf \/ first_data_sector.ovf \/ data_sectors.ovf)
        THEN Outcome("panic", NoInfo, <<ReadOf(Zero32, TRUE)>>)
        ELSE IF bpb.sectors_per_cluster = 0
        THEN Outcome("panic", NoInfo, <<ReadOf(Zero32, TRUE)>>)    \* division by zero
        ELSE Outcome("Ok",
                     FsInfo(bytes_per_sector, AsU32(bpb.sectors_per_cluster),
                            reserved_sector_count, num_fats, fat_size,
                            bpb.root_cluster, first_fat_sector,
                            first_data_sector.val,
                            Div32(data_sectors.val, AsU32(bpb.sectors_per_cluster))),
                     <<ReadOf(Zero32, TRUE)>>)

\* mount without the test of bytes_per_sector
mount_any_sector_size(d, res, checks) ==
    IF d.sector_count = Zero32
    THEN Outcome("IoError", NoInfo, <<>>)
    ELSE IF res # "Ok"
    THEN Outcome(res, NoInfo, <<ReadOf(Zero32, FALSE)>>)
    ELSE LET boot_sector == cast_slice_to_struct(ReadSector(d, Zero32))
         IN  IF boot_sector.boot_signature # BOOT_SIGNATURE
             THEN Outcome("InvalidFat32Structure", NoInfo, <<ReadOf(Zero32, TRUE)>>)
             ELSE MountGeometry(boot_sector, checks)

\* lines 34-86
mount(d, res, checks) ==
    IF d.sector_count = Zero32
    THEN Outcome("IoError", NoInfo, <<>>)
    ELSE IF res # "Ok"
    THEN Outcome(res, NoInfo, <<ReadOf(Zero32, FALSE)>>)
    ELSE LET boot_sector == cast_slice_to_struct(ReadSector(d, Zero32))
         IN  IF boot_sector.boot_signature # BOOT_SIGNATURE
             THEN Outcome("InvalidFat32Structure", NoInfo, <<ReadOf(Zero32, TRUE)>>)
             ELSE IF boot_sector.bytes_per_sector # 512
             THEN Outcome("InvalidFat32Structure", NoInfo, <<ReadOf(Zero32, TRUE)>>)
             ELSE MountGeometry(boot_sector, checks)

\* ------------------------------------------------------- cluster_to_lba

Value(t, v, r) == [tag |-> t, val |-> v, reads |-> r]

\* cluster_to_lba counting clusters from 1
cluster_to_lba_from_one(info, cluster, checks) ==
    LET cluster_offset == Sub32(cluster, U32(0, 1))
        product == Mul32(cluster_offset.val, info.sectors_per_cluster)
        lba == Add32(info.first_data_sector, product.val)
    IN  IF checks /\ (cluster_offset.ovf \/ product.ovf \/ lba.ovf)
        THEN Value("panic", Zero32, <<>>)
        ELSE Value("Ok", lba.val, <<>>)

\* lines 88-91
cluster_to_lba(info, cluster, checks) ==
    LET cluster_offset == Sub32(cluster, Two32)
        product == Mul32(cluster_offset.val, info.sectors_per_cluster)
        lba == Add32(info.first_data_sector, product.val)
    IN  IF checks /\ (cluster_offset.ovf \/ product.ovf \/ lba.ovf)
        THEN Value("panic", Zero32, <<>>)
        ELSE Value("Ok", lba.val, <<>>)

\* -------------------------------------------------------- get_fat_entry

\* u32::from_le_bytes of the four bytes at off
from_le_bytes(buffer, off) ==
    U32(buffer[off + 3] * 256 + buffer[off + 2], buffer[off + 1] * 256 + buffer[off])

\* lines 98-114: the lookup of a cluster that passed the bounds check
FatLookup(d, info, cluster, res, checks) ==
    LET fat_entry_offset == Mul32(cluster, Four32)
        fat_sector_num ==
            Add32(info.first_fat_sector,
                  Div32(fat_entry_offset.val, info.bytes_per_sector))
        fat_entry_in_sector == Rem32(fat_entry_offset.val, info.bytes_per_sector).lo
    IN  IF checks /\ (fat_entry_offset.ovf \/ fat_sector_num.ovf)
        THEN Value("panic", Zero32, <<>>)
        ELSE IF res # "Ok"
        THEN Value(res, Zero32, <<ReadOf(fat_sector_num.val, FALSE)>>)
        ELSE IF fat_entry_in_sector + 3 >= SECTOR_SIZE
        THEN Value("panic", Zero32, <<ReadOf(fat_sector_num.val, TRUE)>>)  \* index out of bounds
        ELSE Value("Ok",
                   MaskLow28(from_le_bytes(ReadSector(d, fat_sector_num.val),
                                           fat_entry_in_sector)),
                   <<ReadOf(fat_sector_num.val, TRUE)>>)

\* get_fat_entry with the upper bound tested by > instead of >=
get_fat_entry_inclusive_bound(d, info, cluster, res, checks) ==
    IF Lt32(cluster, Two32)
    THEN Value("InvalidFat32Structure", Zero32, <<>>)
    ELSE LET bound == Add32(info.cluster_count, Two32)
         IN  IF checks /\ bound.ovf
             THEN Value("panic", Zero32, <<>>)
             ELSE IF Lt32(bound.val, cluster)
             THEN Value("InvalidFat32Structure", Zero32, <<>>)
             ELSE FatLookup(d, info, cluster, res, checks)

\* lines 93-114
get_fat_entry(d, info, cluster, res, checks) ==
    IF Lt32(cluster, Two32)
    THEN Value("InvalidFat32Structure", Zero32, <<>>)
    ELSE LET bound == Add32(info.cluster_count, Two32)
         IN  IF checks /\ bound.ovf
             THEN Value("panic", Zero32, <<>>)
             ELSE IF Ge32(cluster, bound.val)
             THEN Value("InvalidFat32Structure", Zero32, <<>>)
             ELSE FatLookup(d, info, cluster, res, checks)

\* ------------------------------------------------------------ the bounds

\* read_sector calls a run makes at most (mount's included)
MaxReads == 3

\* ---------------------------------------------------------- the machine

VARIABLES
    disk,             \* the device handed to mount
    overflow_checks,  \* the build: TRUE when overflow checks are compiled in
    phase,            \* "unmounted", "mounted", "failed" (mount returned Err), "panicked"
    info,             \* the FsInfo of the volume handle, NoInfo when there is none
    log,              \* every read_sector call made so far, in order
    writes,           \* the number of write_sector calls made so far
    last              \* the last call: its name, argument and outcome

vars == <<disk, overflow_checks, phase, info, log, writes, last>>

\* dev: what the device returned to the call's read_sector, "none" when the
\* call made none
Last(op, c, out, i, res) ==
    [op |-> op, cluster |-> c, tag |-> out.tag, val |-> out.val,
     reads |-> out.reads, info |-> i,
     dev |-> IF out.reads = <<>> THEN "none" ELSE res]

\* the boot sectors of the devices considered
BootFields ==
    [boot_signature : {BOOT_SIGNATURE, 21930},
     bytes_per_sector : {512, 1024},
     sectors_per_cluster : {0, 1, 4},
     reserved_sector_count : {0, 32},
     num_fats : {2},
     total_sectors_32 : {U32(0, 230), U32(0, 10000), Max32},
     fat_size_32 : {Zero32, U32(0, 100), U32(32767, 65535), U32(32768, 0)},
     root_cluster : {Two32}]

Disks ==
    [sector_count : {Zero32, U32(0, 20000)}, boot : BootFields, seed : {0, 1}]

\* the cluster numbers passed to get_fat_entry: around both ends of the valid
\* range, across a sector boundary, and where cluster * 4 leaves 32 bits
FatClusters(i) ==
    {U32(0, 1), Two32, U32(0, 130), U32(16384, 0),
     Add32(i.cluster_count, U32(0, 1)).val, Add32(i.cluster_count, Two32).val}

\* the cluster numbers passed to cluster_to_lba
LbaClusters(i) ==
    {Zero32, Two32, U32(0, 130), Max32, Add32(i.cluster_count, U32(0, 1)).val}

Init ==
    /\ disk \in Disks
    /\ overflow_checks \in BOOLEAN
    /\ phase = "unmounted"
    /\ info = NoInfo
    /\ log = <<>>
    /\ writes = 0
    /\ last = [op |-> "none", cluster |-> Zero32, tag |-> "none", val |-> Zero32,
               reads |-> <<>>, info |-> NoInfo, dev |-> "none"]

PhaseAfter(tag, ok_phase) ==
    CASE tag = "Ok" -> ok_phase
      [] tag = "panic" -> "panicked"
      [] OTHER -> "failed"

Mount ==
    /\ phase = "unmounted"
    /\ \E res \in DeviceResults :
          LET out == mount(disk, res, overflow_checks)
          IN  /\ phase' = PhaseAfter(out.tag, "mounted")
              /\ info' = out.info
              /\ log' = log \o out.reads
              /\ last' = [op |-> "mount", cluster |-> Zero32, tag |-> out.tag,
                          val |-> Zero32, reads |-> out.reads, info |-> NoInfo,
                          dev |-> IF out.reads = <<>> THEN "none" ELSE res]
    /\ UNCHANGED <<disk, overflow_checks, writes>>

\* a call on a volume handle returns an Err and leaves the handle usable; a
\* panic ends the run
PhaseAfterCall(tag) == IF tag = "panic" THEN "panicked" ELSE "mounted"

ClusterToLba ==
    /\ phase = "mounted"
    /\ \E c \in LbaClusters(info) :
          LET out == cluster_to_lba(info, c, overflow_checks)
          IN  /\ phase' = PhaseAfterCall(out.tag)
              /\ last' = Last("cluster_to_lba", c, out, info, "none")
    /\ UNCHANGED <<disk, overflow_checks, info, log, writes>>

GetFatEntry ==
    /\ phase = "mounted"
    /\ Len(log) < MaxReads
    /\ \E c \in FatClusters(info), res \in DeviceResults :
          LET out == get_fat_entry(disk, info, c, res, overflow_checks)
          IN  /\ phase' = PhaseAfterCall(out.tag)
              /\ log' = log \o out.reads
              /\ last' = Last("get_fat_entry", c, out, info, res)
    /\ UNCHANGED <<disk, overflow_checks, info, writes>>

Next == Mount \/ ClusterToLba \/ GetFatEntry

Spec == Init /\ [][Next]_vars

\* ------------------------------------------------ reference arithmetic

\* a * n for a small natural n by repeated addition: the 32-bit value, and
\* whether the true product exceeds 2^32 - 1
RECURSIVE RefTimes(_, _)
RefTimes(a, n) ==
    IF n = 0
    THEN [val |-> Zero32, ovf |-> FALSE]
    ELSE LET r == RefTimes(a, n - 1)
             t == Add32(r.val, a)
         IN  [val |-> t.val, ovf |-> r.ovf \/ t.ovf]

\* the boot sector on the medium
Boot == disk.boot

\* reserved_sector_count + num_fats * fat_size_32 as a true sum
RefFatSectors == RefTimes(Boot.fat_size_32, Boot.num_fats)
RefFirstData == Add32(AsU32(Boot.reserved_sector_count), RefFatSectors.val)
RefFirstDataFits == ~RefFatSectors.ovf /\ ~RefFirstData.ovf

\* total_sectors_32 < first_data_sector, the bound taken as the true sum
TotalBelowFirstData ==
    ~RefFirstDataFits \/ Lt32(Boot.total_sectors_32, RefFirstData.val)

\* mount read sector 0 of a device of nonzero capacity and the read succeeded
BootSectorRead ==
    /\ phase # "unmounted"
    /\ disk.sector_count # Zero32
    /\ Len(log) >= 1
    /\ log[1] = ReadOf(Zero32, TRUE)

GoodHeader == Boot.boot_signature = BOOT_SIGNATURE /\ Boot.bytes_per_sector = 512

JustMounted == last.op = "mount" /\ BootSectorRead

\* q = n / d by its defining inequalities: q * d <= n < q * d + d
IsQuotient(q, n, d) ==
    LET p == RefTimes(q, d)
    IN  /\ ~p.ovf
        /\ Ge32(n, p.val)
        /\ Lt32(Sub32(n, p.val).val, AsU32(d))

\* the cluster passes get_fat_entry's bounds check, the bound cluster_count + 2
\* taken as the true sum
InRange(i, c) ==
    /\ Ge32(c, Two32)
    /\ Add32(i.cluster_count, Two32).ovf \/ Lt32(c, Add32(i.cluster_count, Two32).val)

\* ------------------------------------------------------------ the claims

\* C1: a boot sector with signature 0xAA55 and bytes_per_sector 512 whose
\* total_sectors_32 is below first_data_sector makes mount return
\* Err(InvalidFat32Structure): no panic, no volume from a wrapped subtraction.
\* (Stated as the claim states it; mount makes no such test.)
C1_ShortVolumeRejected ==
    (JustMounted /\ GoodHeader /\ TotalBelowFirstData)
        => (last.tag = "InvalidFat32Structure" /\ phase = "failed")

\* mount was called on a device of nonzero capacity
MountedNonEmpty == phase # "unmounted" /\ disk.sector_count # Zero32

\* C2 as claimed: on every device with sector_count() > 0 whose sector 0 has a
\* signature other than 0xAA55 or bytes_per_sector other than 512, mount has
\* returned Err(InvalidFat32Structure), there is no volume handle, and the read
\* of sector 0 is the only read_sector call ever made.
C2_BadHeaderAlwaysRejected ==
    (MountedNonEmpty /\ ~GoodHeader)
        => /\ phase = "failed"
           /\ last.op = "mount"
           /\ last.tag = "InvalidFat32Structure"
           /\ info = NoInfo
           /\ Len(log) = 1
           /\ log[1].lba = Zero32

\* C2 amended: once mount has read (the read succeeding) a sector 0 with a
\* signature other than 0xAA55 or with bytes_per_sector other than 512, mount
\* has returned Err(InvalidFat32Structure), there is no volume handle, and the
\* read of sector 0 is the only read_sector call ever made.
C2_BadHeaderRejected ==
    (BootSectorRead /\ ~GoodHeader)
        => /\ phase = "failed"
           /\ last.op = "mount"
           /\ last.tag = "InvalidFat32Structure"
           /\ last.dev = "Ok"
           /\ info = NoInfo
           /\ log = <<ReadOf(Zero32, TRUE)>>

C2_Witness ==
    /\ BootSectorRead
    /\ last.tag = "InvalidFat32Structure"
    /\ Boot.boot_signature = BOOT_SIGNATURE
    /\ Boot.bytes_per_sector = 1024
    /\ phase = "failed"

\* the geometry of the volume is the one the formulas give, as true values
ExactGeometry ==
    /\ info.first_fat_sector = AsU32(Boot.reserved_sector_count)
    /\ RefFirstDataFits
    /\ info.first_data_sector = RefFirstData.val
    /\ Ge32(Boot.total_sectors_32, RefFirstData.val)
    /\ Boot.sectors_per_cluster # 0
    /\ IsQuotient(info.cluster_count,
                  Sub32(Boot.total_sectors_32, RefFirstData.val).val,
                  Boot.sectors_per_cluster)

\* the boot sector of the spec's round-trip scenario
RoundTripBoot ==
    /\ Boot.sectors_per_cluster = 4
    /\ Boot.reserved_sector_count = 32
    /\ Boot.num_fats = 2
    /\ Boot.fat_size_32 = U32(0, 100)
    /\ Boot.total_sectors_32 = U32(0, 10000)

\* C3 as claimed: every boot sector with bytes_per_sector 512 and signature
\* 0xAA55 mounts, with first_fat_sector, first_data_sector and cluster_count
\* exactly as the formulas give them.
C3_EveryGoodHeaderMounts ==
    (JustMounted /\ GoodHeader) => (last.tag = "Ok" /\ phase = "mounted" /\ ExactGeometry)

\* C3 amended: a boot sector with bytes_per_sector 512 and signature 0xAA55,
\* sectors_per_cluster nonzero, reserved_sector_count + num_fats * fat_size_32
\* at most 2^32 - 1 and total_sectors_32 not below it, mounts with
\* first_fat_sector, first_data_sector and cluster_count exactly as the
\* formulas give them; the round-trip boot sector gives 32, 232 and 2442.
C3_ValidBootSectorMounts ==
    /\ (JustMounted /\ GoodHeader /\ Boot.sectors_per_cluster # 0
            /\ ~TotalBelowFirstData)
        => (last.tag = "Ok" /\ phase = "mounted" /\ ExactGeometry)
    /\ (JustMounted /\ GoodHeader /\ RoundTripBoot)
        => /\ info.first_fat_sector = U32(0, 32)
           /\ info.first_data_sector = U32(0, 232)
           /\ info.cluster_count = U32(0, 2442)

C3_Witness ==
    /\ JustMounted /\ GoodHeader /\ RoundTripBoot
    /\ phase = "mounted"
    /\ info.cluster_count = U32(0, 2442)

\* C4: get_fat_entry(c) with c < 2 or c >= cluster_count + 2 (the true sum)
\* returns Err(InvalidFat32Structure) and reads nothing from the device.
C4_OutOfRangeRejected ==
    (last.op = "get_fat_entry" /\ ~InRange(last.info, last.cluster))
        => (last.tag = "InvalidFat32Structure" /\ last.reads = <<>>)

\* reached both ways: a cluster at cluster_count + 2, and a cluster below 2 on
\* a volume whose cluster_count + 2 does not fit 32 bits
C4_Witness ==
    /\ last.op = "get_fat_entry"
    /\ last.tag = "InvalidFat32Structure"
    /\ \/ /\ Ge32(last.cluster, Two32)
          /\ ~Add32(last.info.cluster_count, Two32).ovf
          /\ last.cluster = Add32(last.info.cluster_count, Two32).val
       \/ /\ overflow_checks
          /\ Lt32(last.cluster, Two32)
          /\ Add32(last.info.cluster_count, Two32).ovf

\* the FAT sector and the byte offset in it that hold the entry of cluster c:
\* first_fat_sector + (c * 4) / 512 = first_fat_sector + c / 128, and
\* (c * 4) % 512 = (c % 128) * 4, as true values
EntrySector(i, c) == Add32(i.first_fat_sector, Div32(c, U32(0, 128))).val
EntryOffset(c) == Rem32(c, U32(0, 128)).lo * 4

\* the entry the device stores there, the top 4 bits cleared
StoredEntry(i, c) ==
    LET buf == ReadSector(disk, EntrySector(i, c))
        off == EntryOffset(c)
    IN  U32((buf[off + 3] % 16) * 256 + buf[off + 2], buf[off + 1] * 256 + buf[off])

\* C5: a successful get_fat_entry(c) of an in-range cluster has read sector
\* first_fat_sector + (c * 4) / 512 and returns the 4 bytes at offset
\* (c * 4) % 512 of it, little-endian, the top 4 bits cleared; the result is
\* below 2^28.
C5_EntryDecoded ==
    (last.op = "get_fat_entry" /\ last.tag = "Ok")
        => /\ InRange(last.info, last.cluster)
           /\ last.reads = <<ReadOf(EntrySector(last.info, last.cluster), TRUE)>>
           /\ last.val = StoredEntry(last.info, last.cluster)
           /\ last.val.hi < 4096

\* C5 for the clusters below 2^30, whose cluster * 4 fits 32 bits
C5_EntryDecodedBelowWrap ==
    (last.op = "get_fat_entry" /\ last.tag = "Ok" /\ Lt32(last.cluster, U32(16384, 0)))
        => /\ InRange(last.info, last.cluster)
           /\ last.reads = <<ReadOf(EntrySector(last.info, last.cluster), TRUE)>>
           /\ last.val = StoredEntry(last.info, last.cluster)
           /\ last.val.hi < 4096

\* C6 as claimed: for every cluster c >= 2, cluster_to_lba(c) is
\* first_data_sector + (c - 2) * sectors_per_cluster, and no sector is read.
C6_LbaForEveryCluster ==
    (last.op = "cluster_to_lba" /\ Ge32(last.cluster, Two32))
        => LET p == RefTimes(Sub32(last.cluster, Two32).val,
                             last.info.sectors_per_cluster.lo)
               t == Add32(last.info.first_data_sector, p.val)
           IN  /\ last.tag = "Ok"
               /\ ~p.ovf /\ ~t.ovf
               /\ last.val = t.val
               /\ last.reads = <<>>

\* C6 amended: cluster_to_lba(2) is first_data_sector exactly, and for every
\* cluster c >= 2 with first_data_sector + (c - 2) * sectors_per_cluster at most
\* 2^32 - 1, cluster_to_lba(c) is that sum; the call reads no sector and leaves
\* the geometry as it was.
C6_LbaWhereItFits ==
    /\ (last.op = "cluster_to_lba" /\ last.cluster = Two32)
        => (last.tag = "Ok" /\ last.val = last.info.first_data_sector)
    /\ (last.op = "cluster_to_lba" /\ Ge32(last.cluster, Two32))
        => LET p == RefTimes(Sub32(last.cluster, Two32).val,
                             last.info.sectors_per_cluster.lo)
               t == Add32(last.info.first_data_sector, p.val)
           IN  (~p.ovf /\ ~t.ovf) => (last.tag = "Ok" /\ last.val = t.val)
    /\ last.op = "cluster_to_lba" => (last.reads = <<>> /\ info = last.info)

C6_Witness ==
    /\ last.op = "cluster_to_lba"
    /\ last.cluster = U32(0, 130)
    /\ last.info.sectors_per_cluster = U32(0, 4)
    /\ last.tag = "Ok"
    /\ last.val = Add32(last.info.first_data_sector, U32(0, 512)).val

\* C8: a failed read_sector ends mount and get_fat_entry with Err(IoError)
\* after that one attempt; no call reads more than once; a successful
\* get_fat_entry has made exactly one read_sector call, also when an earlier
\* call read the same sector; write_sector is never called.
\* (Stated as the claim states it; lines 40 and 102 hand the device's Err on
\* without mapping it to IoError.)
C8_ReadFailureIsIoError ==
    /\ Len(last.reads) <= 1
    /\ (last.reads # <<>> /\ ~last.reads[1].ok)
        => (last.tag = "IoError" /\ last.op \in {"mount", "get_fat_entry"})
    /\ (last.op = "mount" /\ last.tag = "IoError") => phase = "failed"
    /\ (last.op = "get_fat_entry" /\ last.tag = "Ok")
        => (Len(last.reads) = 1 /\ log[Len(log)] = last.reads[1])
    /\ writes = 0

\* C9: wherever a volume handle exists, its sectors_per_cluster is nonzero and
\* its bytes_per_sector is 512, both as the boot sector declared them at mount
\* and as every later call found them; a boot sector with sectors_per_cluster
\* 0 yields no volume.
C9_GeometryNonzero ==
    /\ (phase = "mounted" \/ info # NoInfo)
        => /\ info.sectors_per_cluster # Zero32
           /\ info.sectors_per_cluster = AsU32(Boot.sectors_per_cluster)
           /\ info.bytes_per_sector = U32(0, 512)
           /\ last.op \in {"cluster_to_lba", "get_fat_entry"} => last.info = info
    /\ Boot.sectors_per_cluster = 0 => (phase # "mounted" /\ info = NoInfo)

C9_Witness ==
    /\ phase = "mounted"
    /\ last.op = "get_fat_entry"
    /\ Len(log) = 3
    /\ info.sectors_per_cluster = U32(0, 4)

\* mount ended on a boot sector with sectors_per_cluster 0 and a good header
C9_ZeroWitness ==
    /\ JustMounted /\ GoodHeader
    /\ Boot.sectors_per_cluster = 0
    /\ last.tag = "panic"

\* C10: for every cluster that passes get_fat_entry's bounds check, cluster * 4
\* fits 32 bits and the sector read lies in the first FAT:
\* first_fat_sector <= sector < first_fat_sector + fat_size.
\* (Stated as the claim states it; mount accepts volumes where it fails.)
C10_ReadInsideFirstFat ==
    (last.op = "get_fat_entry" /\ InRange(last.info, last.cluster))
        => /\ Lt32(last.cluster, U32(16384, 0))
           /\ last.tag # "panic"
           /\ \A k \in 1..Len(last.reads) :
                 /\ Ge32(last.reads[k].lba, last.info.first_fat_sector)
                 /\ Lt32(Sub32(last.reads[k].lba, last.info.first_fat_sector).val,
                         last.info.fat_size)

====
